---- MODULE Spec2Model ----
(***************************************************************************)
(* The Xterm adapter of src/src/Xterm.tsx as a state machine.              *)
(*                                                                         *)
(* The component is a function component with fourteen passive effects,   *)
(* declared in this order: the instance effect (deps [options]), one       *)
(* useBind effect per event name (deps [handler]) and the onInit effect    *)
(* (deps [xtermRef.current], read while rendering).  One action is one     *)
(* synchronous update of the component: the render, which compares every   *)
(* effect's deps with those of the previous render, then the flush of the  *)
(* passive effects: the cleanups of the effects whose deps changed, in     *)
(* declaration order, then their bodies, in declaration order.  An unmount *)
(* runs every remaining cleanup in declaration order.                      *)
(*                                                                         *)
(* `ops` is the record of the calls the last update made on the Terminal   *)
(* objects and on the caller's callbacks, in the order they were made.     *)
(***************************************************************************)
EXTENDS Integers, Sequences, FiniteSets, TLC

\* ------------------------------------------------------------ bounds
\* Terminal objects one adapter may construct (1 on mount, 1 per options change).
MaxInst == 2

\* The events a Terminal emits between two updates.
MaxEmits == 2

\* ------------------------------------------------------------ values
\* Identities of the options prop (compared by identity in the deps array).
OptionIds == {1, 2}

\* Two of the twelve event names; useBind is one generic hook and the twelve
\* calls differ only in the name, so they are modelled in declaration order.
EventOrder == <<"onData", "onKey">>

Events == {EventOrder[k] : k \in 1..Len(EventOrder)}

\* Values of a handler prop: "none" is a prop that is not supplied.
Functions == {"f1", "f2", "i1", "d1", "k1"}

HandlerVals == {"none", "f1", "f2"}

OnInitVals == {"none", "i1"}

OnDisposeVals == {"none", "d1"}

KeyHandlerVals == {"none", "k1"}

NoAddons == [present |-> FALSE, list |-> <<>>]

AddonVals == {NoAddons,
              [present |-> TRUE, list |-> <<"A", "B">>],
              [present |-> TRUE, list |-> <<"B", "A">>]}

Payloads == {"a", "b"}

Props == [options : OptionIds,
          handler : [Events -> HandlerVals],
          onInit : OnInitVals,
          onDispose : OnDisposeVals,
          addons : AddonVals,
          customKeyEventHandler : KeyHandlerVals]

\* typeof h === 'function'
IsFunction(h) == h \in Functions

\* if (customKeyEventHandler), if (addons): truthiness
Truthy(v) == v # "none"

VARIABLES
    phase,        \* "unmounted" | "mounted" | "failed" | "gone"
    props,        \* the props of the last render; once its update is over,
                  \* only the deps the hooks keep (options, the handlers)
    divRef,       \* divRef.current is set
    xtermRef,     \* xtermRef.current: 0 is null, else the Terminal's id
    initDeps,     \* [xtermRef.current] as read by the last render
    instCleanup,  \* the cleanup closure of the instance effect
    bindCleanup,  \* per event name, the cleanup closure of its useBind effect
    inst,         \* the Terminal objects constructed so far
    ops,          \* the calls of the update under way, in order
    errors,       \* the errors the update under way let escape, in order
    last          \* the kind of the update under way, "idle" between updates

vars == <<phase, props, divRef, xtermRef, initDeps, instCleanup, bindCleanup,
          inst, ops, errors, last>>

Insts == 1..MaxInst

NoInst == 0

\* An effect that returned no cleanup function.
NoCleanup == [xterm |-> NoInst, onDispose |-> "none"]

NoBinding == [inst |-> NoInst, h |-> "none"]

\* A Terminal: status is "none" (not constructed), "constructed", "open" or
\* "disposed" (dispose was invoked); inited: it was passed to onInit;
\* listeners: per event name the functions bound and not unbound, in order.
NoTerminal == [status |-> "none", inited |-> FALSE,
               listeners |-> [e \in Events |-> <<>>]]

\* One call: the operation, the Terminal it is made on or passed to, the event
\* name, the function or addon involved and the payload.
OA(op, i, e, f, a) == [op |-> op, inst |-> i, ev |-> e, fn |-> f, arg |-> a]

O(op, i, e, f) == OA(op, i, e, f, "")

\* The ids handed out so far, and the next one.
Constructed(I) == {i \in Insts : I[i].status # "none"}

NextId(I) == Cardinality(Constructed(I)) + 1

\* Remove the first occurrence of h from a sequence of listeners.
RECURSIVE RemoveFirst(_, _)
RemoveFirst(s, h) ==
    IF s = <<>> THEN <<>>
    ELSE IF Head(s) = h THEN Tail(s)
    ELSE <<Head(s)>> \o RemoveFirst(Tail(s), h)

\* ------------------------------------------------------------ effects
\* The effects work on a record S of what they read and write:
\*   ref     xtermRef.current            div     divRef.current is set
\*   instc   cleanup of the instance effect      bindc   cleanups of useBind
\*   inst    the Terminal objects        ops     the calls made so far
\*   errors  errors that escaped         aborted the effect bodies of this
\*                                               flush were cut short by one
\*   odRaises  the caller's onDispose raises when it is called in this flush
Call(S, c) == [S EXCEPT !.ops = Append(@, c)]

\* An error leaves an effect body: the bodies after it do not run.
Throw(S, what) == [S EXCEPT !.errors = Append(@, what), !.aborted = TRUE]

\* An error leaves a cleanup: the cleanups and bodies after it still run.
Escape(S, what) == [S EXCEPT !.errors = Append(@, what)]

\* const xterm = new Terminal(options)
NewTerminal(S, id) ==
    Call([S EXCEPT !.inst[id] = [NoTerminal EXCEPT !.status = "constructed"]],
         O("new", id, "", ""))

\* Variant of LoadAddons: each load is wrapped in a try/catch, so the forEach
\* goes on after a load that raised.
RECURSIVE LoadAddonsSwallow(_, _, _, _, _)
LoadAddonsSwallow(S, id, addons, k, failAt) ==
    IF ~addons.present \/ k > Len(addons.list) THEN S
    ELSE LoadAddonsSwallow(
             Call(S, OA("loadAddon", id, "", addons.list[k],
                        IF k = failAt THEN "raises" ELSE "")),
             id, addons, k + 1, failAt)

\* if (addons) addons.forEach(addon => xterm.loadAddon(addon)): the loads in
\* list order; the failAt-th load (0: none) raises and ends the forEach.
RECURSIVE LoadAddons(_, _, _, _, _)
LoadAddons(S, id, addons, k, failAt) ==
    IF ~addons.present \/ k > Len(addons.list) THEN S
    ELSE LET S1 == Call(S, OA("loadAddon", id, "", addons.list[k],
                                  IF k = failAt THEN "raises" ELSE ""))
         IN  IF k = failAt THEN Throw(S1, "loadAddon")
             ELSE LoadAddons(S1, id, addons, k + 1, failAt)

\* if (customKeyEventHandler) xterm.attachCustomKeyEventHandler(...)
AttachKeyHandler(S, id, handler) ==
    IF Truthy(handler)
    THEN Call(S, O("attachCustomKeyEventHandler", id, "", handler))
    ELSE S

\* xtermRef.current = xterm; xterm.open(divRef.current); return the cleanup
OpenTerminal(S, id, onDispose) ==
    Call([S EXCEPT !.ref = id,
                   !.inst[id].status = "open",
                   !.instc = [xterm |-> id, onDispose |-> onDispose]],
         O("open", id, "", ""))

\* Variant of InstanceEffect: the surface is opened before the addons are
\* loaded and the key handler attached.
InstanceEffectOpensFirst(S, p, failAt) ==
    IF ~S.div THEN S
    ELSE LET id == NextId(S.inst)
             S1 == OpenTerminal(NewTerminal(S, id), id, p.onDispose)
             S2 == LoadAddons(S1, id, p.addons, 1, failAt)
         IN  IF S2.aborted THEN S2
             ELSE AttachKeyHandler(S2, id, p.customKeyEventHandler)

\* The body of the instance effect.  An error raised by loadAddon leaves the
\* body at once: nothing after the forEach runs and no cleanup is returned.
InstanceEffect(S, p, failAt) ==
    IF ~S.div THEN S
    ELSE LET id == NextId(S.inst)
             S1 == NewTerminal(S, id)
             S2 == LoadAddons(S1, id, p.addons, 1, failAt)
         IN  IF S2.aborted THEN S2
             ELSE OpenTerminal(AttachKeyHandler(S2, id, p.customKeyEventHandler),
                               id, p.onDispose)

\* Variant of DisposeTerminal: no try/catch around xterm.dispose().
DisposeTerminalUncaught(S, x, raises) ==
    LET S1 == Call([S EXCEPT !.inst[x].status = "disposed"],
                   OA("dispose", x, "", "", IF raises THEN "raises" ELSE ""))
    IN  IF raises THEN Escape(S1, "dispose") ELSE S1

\* try { xterm.dispose() } catch (e) { console.log(e) }
DisposeTerminal(S, x, raises) ==
    LET S1 == Call([S EXCEPT !.inst[x].status = "disposed"],
                   OA("dispose", x, "", "", IF raises THEN "raises" ELSE ""))
    IN  IF raises THEN Call(S1, O("console.log", x, "", "")) ELSE S1

\* Variant of InstanceCleanup: onDispose is called after xterm.dispose().
InstanceCleanupDisposesFirst(S, raises) ==
    LET x  == S.instc.xterm
        od == S.instc.onDispose
        S1 == DisposeTerminal(S, x, raises)
        S2 == IF IsFunction(od) THEN Call(S1, O("onDispose", x, "", od)) ELSE S1
    IN  [S2 EXCEPT !.ref = NoInst]

\* Variant of InstanceCleanup: xterm.dispose() is left out.
InstanceCleanupKeepsTerminal(S, raises) ==
    LET x  == S.instc.xterm
        od == S.instc.onDispose
        S1 == IF IsFunction(od) THEN Call(S, O("onDispose", x, "", od)) ELSE S
    IN  [S1 EXCEPT !.ref = NoInst]

\* Variant of InstanceCleanup: xtermRef.current is not reset.
InstanceCleanupKeepsRef(S, raises) ==
    LET x  == S.instc.xterm
        od == S.instc.onDispose
        S1 == IF IsFunction(od)
              THEN Call(S, O("onDispose", x, "", od))
              ELSE S
    IN  DisposeTerminal(S1, x, raises)

\* Variant of InstanceCleanup: xterm.dispose() sits inside the onDispose test,
\* so a Terminal built without an onDispose function is never disposed.
InstanceCleanupDisposesWithOnDispose(S, raises) ==
    LET x  == S.instc.xterm
        od == S.instc.onDispose
        S1 == IF IsFunction(od)
              THEN DisposeTerminal(Call(S, O("onDispose", x, "", od)), x, raises)
              ELSE S
    IN  [S1 EXCEPT !.ref = NoInst]

\* Variant of InstanceCleanup: the call of onDispose has a try/catch of its
\* own, so the cleanup goes on to dispose and to reset xtermRef.current.
InstanceCleanupCatchesOnDispose(S, raises) ==
    LET x  == S.instc.xterm
        od == S.instc.onDispose
        S1 == IF IsFunction(od)
              THEN Call(S, OA("onDispose", x, "", od,
                              IF S.odRaises THEN "raises" ELSE ""))
              ELSE S
        S2 == DisposeTerminal(S1, x, raises)
    IN  [S2 EXCEPT !.ref = NoInst]

\* The cleanup of the instance effect; xterm and onDispose are the closure's.
\* onDispose is called outside the try: an error it raises leaves the cleanup
\* before xterm.dispose() and before xtermRef.current is reset.
InstanceCleanup(S, raises) ==
    LET x  == S.instc.xterm
        od == S.instc.onDispose
        S1 == IF IsFunction(od)
              THEN Call(S, OA("onDispose", x, "", od,
                              IF S.odRaises THEN "raises" ELSE ""))
              ELSE S
    IN  IF IsFunction(od) /\ S.odRaises
        THEN Escape(S1, "onDispose")
        ELSE [DisposeTerminal(S1, x, raises) EXCEPT !.ref = NoInst]

\* Variant of UseBindEffect: the handler is registered with term.onData
\* whatever the event name.
UseBindEffectOnData(S, e, handler) ==
    IF S.ref = NoInst \/ ~IsFunction(handler) THEN S
    ELSE Call([S EXCEPT !.inst[S.ref].listeners["onData"] = Append(@, handler),
                        !.bindc[e] = [inst |-> S.ref, h |-> handler]],
              O("bind", S.ref, e, handler))

\* The body of a useBind effect: termRef.current is read when the effect runs.
UseBindEffect(S, e, handler) ==
    IF S.ref = NoInst \/ ~IsFunction(handler) THEN S
    ELSE Call([S EXCEPT !.inst[S.ref].listeners[e] = Append(@, handler),
                        !.bindc[e] = [inst |-> S.ref, h |-> handler]],
              O("bind", S.ref, e, handler))

\* Variant of UseBindCleanup: the effect returns no cleanup, the binding stays.
UseBindCleanupKeepsBinding(S, e) == S

\* The cleanup of a useBind effect: eventBinding.dispose()
UseBindCleanup(S, e) ==
    LET b == S.bindc[e]
    IN  Call([S EXCEPT !.inst[b.inst].listeners[e] = RemoveFirst(@, b.h)],
             O("unbind", b.inst, e, b.h))

\* The body of the onInit effect.
InitEffect(S, onInit) ==
    IF S.ref = NoInst THEN S
    ELSE IF ~IsFunction(onInit) THEN S
    ELSE Call([S EXCEPT !.inst[S.ref].inited = TRUE],
              O("onInit", S.ref, "", onInit))

\* ------------------------------------------------------------ the flush
\* Variant of Dirty: the instance effect also re-runs when a render supplies
\* an addons list (deps [options, addons], the list being a new array).
DirtyOnAddons(old, p, ref, deps) ==
    (IF p.options # old.options \/ p.addons.present THEN {"inst"} ELSE {})
        \cup {e \in Events : p.handler[e] # old.handler[e]}
        \cup (IF ref # deps THEN {"init"} ELSE {})

\* The effects whose deps differ from those of the previous render:
\* [options] (line 226), [handler] (line 171), [xtermRef.current] (line 248).
Dirty(old, p, ref, deps) ==
    (IF p.options # old.options THEN {"inst"} ELSE {})
        \cup {e \in Events : p.handler[e] # old.handler[e]}
        \cup (IF ref # deps THEN {"init"} ELSE {})

AllEffects == {"inst", "init"} \cup Events

\* The cleanups of the effects in D, in declaration order; a cleanup that ran
\* is dropped.
RECURSIVE BindCleanups(_, _, _)
BindCleanups(S, D, k) ==
    IF k > Len(EventOrder) THEN S
    ELSE LET e  == EventOrder[k]
             S1 == IF e \in D /\ S.bindc[e] # NoBinding
                   THEN [UseBindCleanup(S, e) EXCEPT !.bindc[e] = NoBinding]
                   ELSE S
         IN  BindCleanups(S1, D, k + 1)

DestroyPhase(S, D, raises) ==
    LET S1 == IF "inst" \in D /\ S.instc # NoCleanup
              THEN [InstanceCleanup(S, raises) EXCEPT !.instc = NoCleanup]
              ELSE S
    IN  BindCleanups(S1, D, 1)

\* The bodies of the effects in D, in declaration order; an error raised by a
\* body ends the bodies of this component.
RECURSIVE BindEffects(_, _, _, _)
BindEffects(S, p, D, k) ==
    IF k > Len(EventOrder) \/ S.aborted THEN S
    ELSE LET e  == EventOrder[k]
             S1 == IF e \in D THEN UseBindEffect(S, e, p.handler[e]) ELSE S
         IN  BindEffects(S1, p, D, k + 1)

CreatePhase(S, p, D, failAt) ==
    LET S1 == IF "inst" \in D THEN InstanceEffect(S, p, failAt) ELSE S
        S2 == BindEffects(S1, p, D, 1)
    IN  IF ~S2.aborted /\ "init" \in D THEN InitEffect(S2, p.onInit) ELSE S2

\* Variant of Flush: the cleanup calls the onDispose of the render being
\* committed (read through a ref kept up to date) instead of the closure's.
FlushLatestOnDispose(S, p, D, raises, failAt) ==
    LET S1 == IF S.instc # NoCleanup
              THEN [S EXCEPT !.instc.onDispose = p.onDispose]
              ELSE S
    IN  CreatePhase(DestroyPhase(S1, D, raises), p, D, failAt)

Flush(S, p, D, raises, failAt) ==
    CreatePhase(DestroyPhase(S, D, raises), p, D, failAt)

\* What the effects start from in the current state.
Snapshot(div) ==
    [ref |-> xtermRef, div |-> div, instc |-> instCleanup, bindc |-> bindCleanup,
     inst |-> inst, ops |-> <<>>, errors |-> <<>>, aborted |-> FALSE,
     odRaises |-> FALSE]

Commit(S, p, deps, kind) ==
    /\ props' = p
    /\ divRef' = S.div
    /\ xtermRef' = S.ref
    /\ initDeps' = deps
    /\ instCleanup' = S.instc
    /\ bindCleanup' = S.bindc
    /\ inst' = S.inst
    /\ ops' = S.ops
    /\ errors' = S.errors
    /\ last' = kind

\* The inputs an update can meet: dispose raising, the k-th addon load raising.
RaiseChoices(D) ==
    IF "inst" \in D /\ instCleanup # NoCleanup THEN BOOLEAN ELSE {FALSE}

FailChoices(p, D) ==
    IF "inst" \in D /\ p.addons.present THEN 0..Len(p.addons.list) ELSE {0}

\* ------------------------------------------------------------ actions
\* What the hooks keep of a render's props: the deps arrays.
DepsOf(p) ==
    [p EXCEPT !.onInit = "none", !.onDispose = "none", !.addons = NoAddons,
              !.customKeyEventHandler = "none"]

Init ==
    /\ phase = "unmounted"
    /\ props = DepsOf(CHOOSE p \in Props : \A e \in Events : p.handler[e] = "none")
    /\ divRef = FALSE
    /\ xtermRef = NoInst
    /\ initDeps = NoInst
    /\ instCleanup = NoCleanup
    /\ bindCleanup = [e \in Events |-> NoBinding]
    /\ inst = [i \in Insts |-> NoTerminal]
    /\ ops = <<>>
    /\ errors = <<>>
    /\ last = "idle"

\* First render, with props p: the container is attached, then every effect
\* body runs.
Mount(p) ==
    /\ phase = "unmounted"
    /\ last = "idle"
    /\ \E failAt \in FailChoices(p, AllEffects) :
         LET S == Flush(Snapshot(TRUE), p, AllEffects, FALSE, failAt)
         IN  /\ Commit(S, p, xtermRef, "mount")
             /\ phase' = IF S.errors = <<>> THEN "mounted" ELSE "failed"

\* A re-render with props p.
Render(p) ==
    /\ phase = "mounted"
    /\ last = "idle"
    /\ p.options # props.options => NextId(inst) <= MaxInst
    /\ LET D == Dirty(props, p, xtermRef, initDeps)
       IN  \E raises \in RaiseChoices(D), failAt \in FailChoices(p, D) :
             LET S == Flush(Snapshot(divRef), p, D, raises, failAt)
             IN  /\ Commit(S, p, xtermRef, "render")
                 /\ phase' = IF S.errors = <<>> THEN "mounted" ELSE "failed"

\* The adapter leaves the tree, also after an update let an error escape:
\* every cleanup still held runs, in declaration order.
Unmount ==
    /\ phase \in {"mounted", "failed"}
    /\ last = "idle"
    /\ \E raises \in RaiseChoices(AllEffects) :
         LET S == DestroyPhase(Snapshot(FALSE), AllEffects, raises)
         IN  /\ Commit(S, props, initDeps, "unmount")
             /\ phase' = "gone"

\* The Terminal that is open emits event e with payload d: its listeners for
\* e are called in the order they were added.  Up to MaxEmits events follow
\* one another before the record of calls starts anew.
Emit(e, d) ==
    /\ phase = "mounted"
    /\ last \in {"idle", "emit"}
    /\ Len(SelectSeq(ops, LAMBDA c : c.op = "emit")) < MaxEmits
    /\ \E i \in Insts :
         /\ inst[i].status = "open"
         /\ ops' = ops \o <<OA("emit", i, e, "", d)>> \o
                   [k \in 1..Len(inst[i].listeners[e]) |->
                       OA("call", i, e, inst[i].listeners[e][k], d)]
    /\ errors' = <<>>
    /\ last' = "emit"
    /\ UNCHANGED <<phase, props, divRef, xtermRef, initDeps, instCleanup,
                   bindCleanup, inst>>

\* The update is over: the next one starts a new record of calls, and of the
\* props of the finished render the hooks keep the deps.
Idle ==
    /\ last # "idle"
    /\ props' = DepsOf(props)
    /\ ops' = <<>>
    /\ errors' = <<>>
    /\ last' = "idle"
    /\ UNCHANGED <<phase, divRef, xtermRef, initDeps, instCleanup,
                   bindCleanup, inst>>

Next ==
    \/ \E p \in Props : Mount(p)
    \/ \E p \in Props : Render(p)
    \/ Unmount
    \/ \E e \in Events, d \in Payloads : Emit(e, d)
    \/ Idle

Spec == Init /\ [][Next]_vars

\* ------------------------------------------------------------ onDispose raises
\* A re-render with new options in which the onDispose held by the cleanup
\* raises.  The error leaves the cleanup; the flush goes on with the other
\* cleanups and the effect bodies, and the update ends with an error.
RenderOnDisposeRaises(p) ==
    /\ phase = "mounted"
    /\ last = "idle"
    /\ p.options # props.options
    /\ NextId(inst) <= MaxInst
    /\ IsFunction(instCleanup.onDispose)
    /\ LET D == Dirty(props, p, xtermRef, initDeps)
       IN  \E raises \in BOOLEAN, failAt \in FailChoices(p, D) :
             LET S == Flush([Snapshot(divRef) EXCEPT !.odRaises = TRUE],
                            p, D, raises, failAt)
             IN  /\ Commit(S, p, xtermRef, "render")
                 /\ phase' = IF S.errors = <<>> THEN "mounted" ELSE "failed"

\* The adapter leaves the tree and the onDispose held by the cleanup raises.
UnmountOnDisposeRaises ==
    /\ phase \in {"mounted", "failed"}
    /\ last = "idle"
    /\ IsFunction(instCleanup.onDispose)
    /\ \E raises \in BOOLEAN :
         LET S == DestroyPhase([Snapshot(FALSE) EXCEPT !.odRaises = TRUE],
                               AllEffects, raises)
         IN  /\ Commit(S, props, initDeps, "unmount")
             /\ phase' = "gone"

\* The props of the runs in which onDispose may raise.
OnDisposeRaisesProps ==
    [options : OptionIds,
     handler : [Events -> {"none", "f1"}],
     onInit : OnInitVals,
     onDispose : OnDisposeVals,
     addons : {NoAddons, [present |-> TRUE, list |-> <<"A", "B">>]},
     customKeyEventHandler : {"none"}]

NextOnDisposeRaises ==
    \/ \E p \in OnDisposeRaisesProps : Mount(p)
    \/ \E p \in OnDisposeRaisesProps : Render(p)
    \/ \E p \in OnDisposeRaisesProps : RenderOnDisposeRaises(p)
    \/ Unmount
    \/ UnmountOnDisposeRaises
    \/ \E e \in Events, d \in Payloads : Emit(e, d)
    \/ Idle

SpecOnDisposeRaises == Init /\ [][NextOnDisposeRaises]_vars

\* ------------------------------------------------------------ properties
\* Positions in a record of calls o: of operation op, and of op on Terminal i.
Ks(o, op) == {k \in DOMAIN o : o[k].op = op}

KsOn(o, op, i) == {k \in DOMAIN o : o[k].op = op /\ o[k].inst = i}

\* Every position of K1 is before every position of K2.
Before(K1, K2) == \A k1 \in K1, k2 \in K2 : k1 < k2

\* The Terminal that is constructed and has not had dispose invoked.
Live == {i \in Insts : inst[i].status \in {"constructed", "open"}}

C2_OptionsChangeRebuildsOnce ==
    [][(last' = "render" /\ props'.options # props.options /\ phase' = "mounted") =>
          LET old == xtermRef
              new == xtermRef'
              od  == instCleanup.onDispose
          IN  /\ new # old /\ new # NoInst
              /\ Ks(ops', "dispose") = KsOn(ops', "dispose", old)
              /\ Cardinality(Ks(ops', "dispose")) = 1
              /\ Ks(ops', "onDispose") = KsOn(ops', "onDispose", old)
              /\ Cardinality(Ks(ops', "onDispose")) = IF IsFunction(od) THEN 1 ELSE 0
              /\ Before(Ks(ops', "onDispose"), Ks(ops', "dispose"))
              /\ Ks(ops', "new") = KsOn(ops', "new", new)
              /\ Cardinality(Ks(ops', "new")) = 1
              /\ Before(Ks(ops', "dispose"), Ks(ops', "new"))
              /\ Cardinality(KsOn(ops', "loadAddon", new)) = Len(props'.addons.list)
              /\ Cardinality(KsOn(ops', "open", new)) = 1
              /\ IsFunction(props'.onInit) =>
                    /\ Ks(ops', "onInit") = KsOn(ops', "onInit", new)
                    /\ Cardinality(Ks(ops', "onInit")) = 1]_vars

\* C3: every constructed Terminal is passed to onInit (when onInit is a
\* function) exactly once: in the update that opened it, and never again in a
\* later update that keeps it.
C3_OnInitOncePerInstance ==
    [][\A i \in Insts :
          /\ Cardinality(KsOn(ops', "onInit", i)) <= 1
          /\ inst[i].inited => KsOn(ops', "onInit", i) = {}
          /\ (KsOn(ops', "open", i) # {} /\ IsFunction(props'.onInit))
                => Cardinality(KsOn(ops', "onInit", i)) = 1]_vars

\* C4: on unmount, whatever event callbacks are bound, the onDispose the
\* teardown holds (the one supplied when the Terminal was constructed) is, if
\* it is a function, invoked exactly once, with the Terminal being torn down
\* and before dispose is invoked on it; the Terminal was not torn down before.
C4_OnDisposeOnceBeforeDispose ==
    [][(last' = "unmount" /\ instCleanup # NoCleanup) =>
          LET x  == instCleanup.xterm
              od == instCleanup.onDispose
          IN  /\ inst[x].status = "open"
              /\ Ks(ops', "dispose") = KsOn(ops', "dispose", x)
              /\ Cardinality(Ks(ops', "dispose")) = 1
              /\ Cardinality(Ks(ops', "onDispose")) = IF IsFunction(od) THEN 1 ELSE 0
              /\ \A k \in Ks(ops', "onDispose") :
                    ops'[k].inst = x /\ ops'[k].fn = od
              /\ Before(Ks(ops', "onDispose"), Ks(ops', "dispose"))]_vars

C4_Witness ==
    /\ last = "unmount"
    /\ Ks(ops, "onDispose") # {}
    /\ Ks(ops, "unbind") # {}

\* C5: when the Terminal's dispose raises during a teardown, the error is
\* caught and logged and does not escape; the teardown completes, the
\* reference to the Terminal is cleared, and on an options change the
\* replacement is still constructed.
C5_DisposeErrorSuppressed ==
    \A k \in Ks(ops, "dispose") :
        ops[k].arg = "raises" =>
            LET x == ops[k].inst
            IN  /\ \A j \in DOMAIN errors : errors[j] # "dispose"
                /\ k + 1 \in KsOn(ops, "console.log", x)
                /\ xtermRef # x
                /\ instCleanup.xterm # x
                /\ last = "unmount" =>
                      /\ phase = "gone"
                      /\ xtermRef = NoInst
                      /\ \A e \in Events : bindCleanup[e] = NoBinding
                /\ last = "render" =>
                      /\ \E j \in KsOn(ops, "new", x + 1) : j > k
                      /\ errors = <<>> =>
                            xtermRef = x + 1 /\ inst[x + 1].status = "open"

C5_Witness ==
    /\ last = "render"
    /\ \E k \in Ks(ops, "dispose") : ops[k].arg = "raises"
    /\ xtermRef = 2
    /\ inst[2].status = "open"

\* C6: for each event name E, a render that supplies a new function for E in
\* place of another disposes exactly one binding, the old one, and then
\* creates exactly one, with the new function; a render that supplies the same
\* reference creates and disposes none; and at no time do two undisposed
\* bindings of one event name exist.
C6_OneBindingPerEvent ==
    /\ [][last' = "render" =>
             \A e \in Events :
                 LET old == props.handler[e]
                     new == props'.handler[e]
                     U   == {k \in Ks(ops', "unbind") : ops'[k].ev = e}
                     B   == {k \in Ks(ops', "bind") : ops'[k].ev = e}
                 IN  /\ new = old => U = {} /\ B = {}
                     /\ (new # old /\ IsFunction(old) /\ IsFunction(new)
                           /\ phase' = "mounted") =>
                           /\ Cardinality(U) = 1 /\ Cardinality(B) = 1
                           /\ \A k \in U : ops'[k].fn = old
                           /\ \A k \in B : ops'[k].fn = new
                           /\ Before(U, B)]_vars
    /\ [](\A e \in Events :
             Cardinality(UNION {{<<i, k>> : k \in DOMAIN inst[i].listeners[e]}
                                : i \in Insts}) <= 1)

C6_Witness ==
    /\ last = "render"
    /\ \E k1, k2 \in DOMAIN ops :
         /\ k1 < k2
         /\ ops[k1].op = "unbind" /\ ops[k1].ev = "onData" /\ ops[k1].fn = "f1"
         /\ ops[k2].op = "bind" /\ ops[k2].ev = "onData" /\ ops[k2].fn = "f2"

\* C7: every binding is disposed before dispose is invoked on the Terminal it
\* is attached to, on unmount and on an options change: no binding is unbound
\* after its Terminal's dispose, and no disposed Terminal keeps a binding.
C7_BindingsDisposedBeforeInstance ==
    /\ \A i \in Insts :
         inst[i].status = "disposed" =>
             \A e \in Events : inst[i].listeners[e] = <<>>
    /\ \A i \in Insts : Before(KsOn(ops, "unbind", i), KsOn(ops, "dispose", i))

C9_ConstructionOrder ==
    \A k \in Ks(ops, "new") :
        LET i    == ops[k].inst
            list == props.addons.list
            n    == Cardinality(KsOn(ops, "loadAddon", i))
            a    == IF Truthy(props.customKeyEventHandler) THEN 1 ELSE 0
            late == KsOn(ops, "bind", i) \cup KsOn(ops, "onInit", i)
        IN  /\ n <= Len(list)
            /\ KsOn(ops, "loadAddon", i) = {k + j : j \in 1..n}
            /\ \A j \in 1..n : ops[k + j].fn = list[j]
            /\ \A j \in late : j > k
            /\ errors = <<>> =>
                  /\ n = Len(list)
                  /\ KsOn(ops, "attachCustomKeyEventHandler", i)
                        = {k + n + j : j \in 1..a}
                  /\ KsOn(ops, "open", i) = {k + n + a + 1}
                  /\ \A j \in late : j > k + n + a + 1
                  /\ last = "mount" =>
                        \A e \in Events :
                            IsFunction(props.handler[e]) =>
                                \E j \in KsOn(ops, "bind", i) : ops[j].ev = e

C9_Witness ==
    /\ last = "mount"
    /\ Len(ops) >= 7
    /\ ops[1].op = "new"
    /\ ops[2].op = "loadAddon" /\ ops[2].fn = "A"
    /\ ops[3].op = "loadAddon" /\ ops[3].fn = "B"
    /\ ops[4].op = "attachCustomKeyEventHandler"
    /\ ops[5].op = "open"
    /\ ops[6].op = "bind"
    /\ ops[Len(ops)].op = "onInit"

\* C10: when the k-th addon load raises, the error escapes the construction
\* and nothing after it happens: no later addon is loaded, no key handler is
\* attached, the surface is not opened, the reference is not set, no binding
\* is created on the Terminal and it is not passed to onInit.
C10_AddonLoadErrorIsFatal ==
    \A k \in Ks(ops, "loadAddon") :
        ops[k].arg = "raises" =>
            LET i == ops[k].inst
            IN  /\ k = Len(ops)
                /\ errors = <<"loadAddon">>
                /\ phase = "failed"
                /\ xtermRef = NoInst
                /\ instCleanup = NoCleanup
                /\ inst[i].status = "constructed"
                /\ ~inst[i].inited
                /\ \A e \in Events : inst[i].listeners[e] = <<>>
                /\ KsOn(ops, "attachCustomKeyEventHandler", i) = {}
                /\ KsOn(ops, "open", i) = {}
                /\ KsOn(ops, "bind", i) = {}
                /\ KsOn(ops, "onInit", i) = {}

C10_Witness ==
    /\ last = "render"
    /\ \E k \in Ks(ops, "loadAddon") :
         ops[k].arg = "raises" /\ ops[k].fn = "A" /\ ops[k].inst = 2
    /\ props.customKeyEventHandler = "k1"
    /\ IsFunction(props.onInit)

\* ------------------------------------------------------------ non-function props
\* Props whose handler props may also hold a value that is not a function
\* ("notfn": a truthy value such as an object or a string).
NonFunctionProps ==
    [options : OptionIds,
     handler : [Events -> {"none", "notfn", "f1"}],
     onInit : {"none", "notfn", "i1"},
     onDispose : {"none", "notfn", "d1"},
     addons : {NoAddons},
     customKeyEventHandler : {"none", "notfn", "k1"}]

NextNonFunction ==
    \/ \E p \in NonFunctionProps : Mount(p)
    \/ \E p \in NonFunctionProps : Render(p)
    \/ Unmount
    \/ \E e \in Events, d \in Payloads : Emit(e, d)
    \/ Idle

SpecNonFunction == Init /\ [][NextNonFunction]_vars

\* C11: a handler prop that is missing or is not a function counts as not
\* supplied, for the event callbacks, onInit, onDispose and
\* customKeyEventHandler alike: nothing is bound, attached or invoked for it
\* and no error is raised; an unmount invokes no callback that is not a
\* function and raises no error.
C11_NonFunctionHandlersIgnored ==
    /\ errors = <<>>
    /\ \A k \in Ks(ops, "onDispose") \cup Ks(ops, "onInit") \cup Ks(ops, "call") :
         IsFunction(ops[k].fn)
    /\ last \in {"mount", "render"} =>
         /\ \A e \in Events :
              ~IsFunction(props.handler[e]) =>
                  /\ {k \in Ks(ops, "bind") : ops[k].ev = e} = {}
                  /\ bindCleanup[e] = NoBinding
         /\ ~IsFunction(props.onInit) => Ks(ops, "onInit") = {}
         /\ (~IsFunction(props.onDispose) /\ Ks(ops, "open") # {}) =>
              ~IsFunction(instCleanup.onDispose)
         /\ ~IsFunction(props.customKeyEventHandler) =>
              Ks(ops, "attachCustomKeyEventHandler") = {}

\* ------------------------------------------------------------ re-renders
\* The calls the instance effect and its cleanup make.
InstanceOps ==
    {"new", "loadAddon", "attachCustomKeyEventHandler", "open", "onDispose",
     "dispose", "console.log"}

\* C12: a re-render that keeps the identity of options leaves the Terminal
\* untouched whatever else it changes (event callbacks, addons, key handler,
\* onDispose): nothing is constructed or disposed, no addon is loaded, no key
\* handler attached, the surface is not opened again and onDispose is not
\* invoked; only the bindings of the events whose callback changed are
\* touched.  An addon is loaded once, in the update that constructs.
C12_SameOptionsLeavesInstance ==
    [][/\ (last' = "render" /\ props'.options = props.options) =>
            /\ \A k \in DOMAIN ops' : ops'[k].op \notin InstanceOps
            /\ \A i \in Insts : inst'[i].status = inst[i].status
            /\ xtermRef' = xtermRef
            /\ instCleanup' = instCleanup
            /\ \A e \in Events :
                 props'.handler[e] = props.handler[e] =>
                     /\ bindCleanup'[e] = bindCleanup[e]
                     /\ \A k \in DOMAIN ops' : ops'[k].ev # e
       /\ \A i \in Insts :
            LET loads == KsOn(ops', "loadAddon", i)
            IN  loads # {} =>
                    /\ KsOn(ops', "new", i) # {}
                    /\ inst[i].status = "none"
                    /\ \A k1, k2 \in loads :
                         ops'[k1].fn = ops'[k2].fn => k1 = k2
      ]_vars

\* A re-render kept options and changed one callback, the addons and the key
\* handler: the one binding was replaced and nothing else was called.
C12_Witness ==
    /\ last = "render"
    /\ phase = "mounted"
    /\ props.addons.present
    /\ props.customKeyEventHandler = "k1"
    /\ props.onDispose = "d1"
    /\ instCleanup.onDispose = "none"
    /\ Ks(ops, "new") = {}
    /\ Ks(ops, "unbind") # {}
    /\ Ks(ops, "bind") # {}
    /\ \A k \in DOMAIN ops : ops[k].op \in {"bind", "unbind"} /\ ops[k].ev = "onData"
    /\ bindCleanup["onKey"].h = "f1"

PayloadsOf(o, op, e) ==
    LET es == SelectSeq(o, LAMBDA c : c.op = op /\ c.ev = e)
    IN  [k \in DOMAIN es |-> es[k].arg]

\* C14: the events of one name reach that name's callback in the order the
\* Terminal emits them, and an event of name E invokes no callback but the
\* one supplied for E: neither another event's callback nor onInit or
\* onDispose.
C14_DeliveredInOrderToOwnCallback ==
    last = "emit" =>
        /\ \A k \in DOMAIN ops :
             /\ ops[k].op \in {"emit", "call"}
             /\ ops[k].op = "call" =>
                  /\ IsFunction(ops[k].fn)
                  /\ ops[k].fn = props.handler[ops[k].ev]
                  /\ k > 1
                  /\ ops[k - 1].op = "emit"
                  /\ ops[k - 1].ev = ops[k].ev
                  /\ ops[k - 1].arg = ops[k].arg
        /\ \A e \in Events :
             IF bindCleanup[e] # NoBinding /\ bindCleanup[e].inst = xtermRef
             THEN PayloadsOf(ops, "call", e) = PayloadsOf(ops, "emit", e)
             ELSE PayloadsOf(ops, "call", e) = <<>>

\* Only onData is supplied; the Terminal emitted "a" then "b".
C14_Witness ==
    /\ last = "emit"
    /\ props.handler["onData"] = "f1"
    /\ props.handler["onKey"] = "none"
    /\ PayloadsOf(ops, "emit", "onData") = <<"a", "b">>
    /\ PayloadsOf(ops, "call", "onData") = <<"a", "b">>
    /\ Len(ops) = 4

LoadedInto(o, i) ==
    LET es == SelectSeq(o, LAMBDA c : c.op = "loadAddon" /\ c.inst = i)
    IN  [k \in DOMAIN es |-> es[k].fn]

\* C16: the onDispose invoked when a Terminal is torn down is the one
\* supplied by the render that constructed it; a re-render that keeps options
\* and supplies another onDispose, addons list or key handler changes none of
\* the three; and the addons loaded into a Terminal and the key handler
\* attached to it are those of the render that constructed it.
C16_TeardownUsesConstructingRender ==
    [][/\ \A i \in Insts :
            KsOn(ops', "open", i) # {} =>
                /\ instCleanup' = [xterm |-> i, onDispose |-> props'.onDispose]
                /\ LoadedInto(ops', i) = props'.addons.list
                /\ {ops'[k].fn : k \in KsOn(ops', "attachCustomKeyEventHandler", i)}
                     = {props'.customKeyEventHandler} \ {"none"}
       /\ (last' = "render" /\ props'.options = props.options) =>
            /\ instCleanup' = instCleanup
            /\ Ks(ops', "loadAddon") = {}
            /\ Ks(ops', "attachCustomKeyEventHandler") = {}
            /\ Ks(ops', "onDispose") = {}
       /\ \A k \in Ks(ops', "onDispose") :
            /\ ops'[k].inst = instCleanup.xterm
            /\ ops'[k].fn = instCleanup.onDispose
       /\ \A k \in Ks(ops', "dispose") :
            IsFunction(instCleanup.onDispose) =>
                KsOn(ops', "onDispose", ops'[k].inst) # {}
      ]_vars

\* The first Terminal was constructed with onDispose d1; the re-render that
\* replaced it supplied no onDispose, and d1 was invoked with the first.
C16_Witness ==
    /\ last = "render"
    /\ props.onDispose = "none"
    /\ \E k \in KsOn(ops, "onDispose", 1) : ops[k].fn = "d1"
    /\ KsOn(ops, "open", 2) # {}
    /\ instCleanup = [xterm |-> 2, onDispose |-> "none"]

\* ------------------------------------------------------------ onDispose errors
\* The errors that escaped the update.
Escaped == {errors[k] : k \in DOMAIN errors}

\* C17: an error raised by onDispose during a teardown is not caught: it
\* leaves the cleanup, xterm.dispose() is not invoked on that Terminal and
\* xtermRef is not reset by the cleanup; only an error raised by
\* xterm.dispose() itself is suppressed.
C17_OnDisposeErrorPropagates ==
    /\ \A k \in Ks(ops, "onDispose") :
         ops[k].arg = "raises" =>
             LET x == ops[k].inst
             IN  /\ "onDispose" \in Escaped
                 /\ phase \in {"failed", "gone"}
                 /\ KsOn(ops, "dispose", x) = {}
                 /\ KsOn(ops, "console.log", x) = {}
                 /\ inst[x].status = "open"
                 /\ xtermRef # NoInst
                 /\ Ks(ops, "open") = {} => xtermRef = x
    /\ \A k \in Ks(ops, "dispose") :
         ops[k].arg = "raises" =>
             /\ "dispose" \notin Escaped
             /\ \E j \in KsOn(ops, "console.log", ops[k].inst) : j > k

\* An unmount in which onDispose raised: the error escaped, the Terminal was
\* not disposed and xtermRef still names it.
C17_Witness ==
    /\ last = "unmount"
    /\ phase = "gone"
    /\ errors = <<"onDispose">>
    /\ \E k \in Ks(ops, "onDispose") : ops[k].arg = "raises"
    /\ Ks(ops, "dispose") = {}
    /\ xtermRef # NoInst
    /\ inst[xtermRef].status = "open"

====
